---------------------------- MODULE Spec2Model ----------------------------
(***************************************************************************)
(* A model of run_metrics.py, the batch harness that runs air cargo        *)
(* planning problems against search functions under a per-run timer.       *)
(*                                                                         *)
(* Two threads are modelled: the main thread (argument handling, the       *)
(* batch loop of main, run_search, add_results, export_results_to_csv)     *)
(* and the threading.Timer threads that run quit_function.  A timer that   *)
(* is armed may fire at any moment, and thread.interrupt_main() raises     *)
(* KeyboardInterrupt in the main thread at whatever statement the main     *)
(* thread is executing when the timer thread makes the call.               *)
(*                                                                         *)
(* Python values: None is the empty tuple <<>> and a present value v is    *)
(* <<v>>, so that an absent value never compares equal to a number.        *)
(* A string that int() parses is a tuple of one-character strings.         *)
(***************************************************************************)
EXTENDS Integers, Sequences, FiniteSets, TLC

None == <<>>
Some(v) == <<v>>

(***************************************************************************)
(* Bounds of the exploration.                                              *)
(***************************************************************************)
\* search iterations (one goal test, one expansion) a run may perform
MaxOps == 1
\* longest plan a search returns
MaxPlan == 1
\* longest index list given on the command line or typed at a prompt
MaxChoices == 2
\* largest batch: Len(problem list) * Len(search list)
MaxBatch == 4
\* timers whose deadline is reached during one batch
MaxFires == 2
\* latest process start time explored, in clock ticks
MaxClock == 3
\* resolution of the clock: ticks of datetime.now() per whole second
TicksPerSecond == 2

(***************************************************************************)
(* The registries.                                                         *)
(***************************************************************************)
PROBLEMS ==
  << [name |-> "Air Cargo Problem 1", factory |-> "air_cargo_p1"],
     [name |-> "Air Cargo Problem 2", factory |-> "air_cargo_p2"],
     [name |-> "Air Cargo Problem 3", factory |-> "air_cargo_p3"] >>

SEARCHES ==
  << [name |-> "breadth_first_search", fn |-> "breadth_first_search", h |-> ""],
     [name |-> "breadth_first_tree_search", fn |-> "breadth_first_tree_search", h |-> ""],
     [name |-> "depth_first_graph_search", fn |-> "depth_first_graph_search", h |-> ""],
     [name |-> "depth_limited_search", fn |-> "depth_limited_search", h |-> ""],
     [name |-> "uniform_cost_search", fn |-> "uniform_cost_search", h |-> ""],
     [name |-> "recursive_best_first_search", fn |-> "recursive_best_first_search", h |-> "h_1"],
     [name |-> "greedy_best_first_graph_search", fn |-> "greedy_best_first_graph_search", h |-> "h_1"],
     [name |-> "astar_search", fn |-> "astar_search", h |-> "h_1"],
     [name |-> "astar_search", fn |-> "astar_search", h |-> "h_ignore_preconditions"],
     [name |-> "astar_search", fn |-> "astar_search", h |-> "h_pg_levelsum"] >>

(***************************************************************************)
(* Python built-ins used by the argument handling.                         *)
(***************************************************************************)
Digits == {"0", "1", "2", "3", "4", "5", "6", "7", "8", "9"}

DigitVal(c) ==
  CASE c = "0" -> 0 [] c = "1" -> 1 [] c = "2" -> 2 [] c = "3" -> 3
    [] c = "4" -> 4 [] c = "5" -> 5 [] c = "6" -> 6 [] c = "7" -> 7
    [] c = "8" -> 8 [] c = "9" -> 9

IsDigits(s) == Len(s) > 0 /\ \A i \in 1..Len(s) : s[i] \in Digits

RECURSIVE DigitsVal(_)
DigitsVal(s) ==
  IF s = <<>> THEN 0
  ELSE 10 * DigitsVal(SubSeq(s, 1, Len(s) - 1)) + DigitVal(s[Len(s)])

\* int(token) succeeds: an optional sign followed by decimal digits
IsPyInt(tok) ==
  \/ IsDigits(tok)
  \/ Len(tok) > 1 /\ tok[1] \in {"-", "+"} /\ IsDigits(Tail(tok))

\* int(token), for a token int() accepts
PyInt(tok) ==
  IF IsDigits(tok) THEN DigitsVal(tok)
  ELSE IF tok[1] = "-" THEN 0 - DigitsVal(Tail(tok))
  ELSE DigitsVal(Tail(tok))

\* the elements of a list, as set(list) collects them
PySet(xs) == {xs[i] : i \in 1..Len(xs)}

Min(S) == CHOOSE x \in S : \A y \in S : x <= y

\* sorted(S) for a set of integers: ascending
RECURSIVE PySorted(_)
PySorted(S) ==
  IF S = {} THEN <<>>
  ELSE <<Min(S)>> \o PySorted(S \ {Min(S)})

\* list[k] with Python's 0-based index and wrap-around of negative k
PyIndexOK(list, k) == Len(list) > k /\ k >= 0 - Len(list)

PyIndex(list, k) ==
  IF k >= 0 THEN list[k + 1] ELSE list[Len(list) + k + 1]

\* an entry of p_choices / s_choices: an int (direct mode) or a str (manual)
IntItem(n) == [int |-> n]
StrItem(tok) == [str |-> tok]

\* int(x) of main's map(int, ...) succeeds on an int and on a parsable str
ItemIsInt(x) == IF "int" \in DOMAIN x THEN TRUE ELSE IsPyInt(x.str)

ItemInt(x) == IF "int" \in DOMAIN x THEN x.int ELSE PyInt(x.str)

\* a comprehension [f(x) for x in xs]
MapSeq(F(_), xs) == [i \in 1..Len(xs) |-> F(xs[i])]


(***************************************************************************)
(* The invocations explored: the command line and, for manual mode, the    *)
(* two lines typed at the prompts.                                         *)
(***************************************************************************)
Tok(c) == <<c>>

\* tokens for problem indices: valid (1, 2), wrapping (0), too large (4)
ProblemTokens == {Tok("0"), Tok("1"), Tok("2"), Tok("4")}

\* tokens for search indices: no heuristic (1), two astar entries (8, 9)
SearchTokens == {Tok("1"), Tok("8"), Tok("9")}

ListsOver(T, n) == UNION {[1..k -> T] : k \in 0..n}

\* argparse's nargs="+" needs at least one token after a flag that is given
FlagValues(T, n) == {None} \cup {Some(l) : l \in ListsOver(T, n) \ {<<>>}}

SizeOf(opt) == IF opt = None THEN 0 ELSE Len(opt[1])

NoStdin == [p |-> <<>>, s |-> <<>>]

\* direct mode: -p and -s lists, either of which may be left out
DirectInvocations ==
  {[argv |-> a, stdin |-> NoStdin] :
     a \in {a \in [manual : {FALSE},
                   problems : FlagValues(ProblemTokens, MaxChoices),
                   searches : FlagValues(SearchTokens, MaxChoices)] :
              SizeOf(a.problems) * SizeOf(a.searches) <= MaxBatch}}

\* manual mode: -m alone, and two typed lines
ManualInvocations ==
  {[argv |-> [manual |-> TRUE, problems |-> None, searches |-> None], stdin |-> i] :
     i \in {i \in [p : ListsOver(ProblemTokens, MaxChoices),
                   s : ListsOver(SearchTokens, MaxChoices)] :
              Len(i.p) * Len(i.s) <= MaxBatch}}

\* -m together with -p and/or -s (one index each), and two typed lines
MixedInvocations ==
  {[argv |-> a, stdin |-> i] :
     a \in {a \in [manual : {TRUE},
                   problems : FlagValues(ProblemTokens, 1),
                   searches : FlagValues(SearchTokens, 1)] :
              a.problems # None \/ a.searches # None},
     i \in [p : ListsOver(ProblemTokens, 1), s : ListsOver(SearchTokens, 1)]}

Invocations == DirectInvocations \cup ManualInvocations \cup MixedInvocations

(***************************************************************************)
(* The environments explored.  Every invocation is explored in a quiet     *)
(* environment (one deadline may be reached, searches do no counted work   *)
(* and return an empty plan); a 2 x 2 batch is explored with up to         *)
(* MaxFires deadlines reached, and a 1 x 2 batch with searches that        *)
(* perform up to MaxOps iterations and return plans of up to MaxPlan       *)
(* actions.                                                                *)
(***************************************************************************)
Quiet == [fires |-> 1, ops |-> 0, plan |-> 0]
Racy == [fires |-> MaxFires, ops |-> 0, plan |-> 0]
Busy == [fires |-> MaxFires, ops |-> MaxOps, plan |-> MaxPlan]

RacyInvocation ==
  [argv |-> [manual |-> FALSE,
             problems |-> Some(<<Tok("2"), Tok("1")>>),
             searches |-> Some(<<Tok("8"), Tok("1")>>)],
   stdin |-> NoStdin]

BusyInvocation ==
  [argv |-> [manual |-> FALSE,
             problems |-> Some(<<Tok("1")>>),
             searches |-> Some(<<Tok("1"), Tok("8")>>)],
   stdin |-> NoStdin]

\* the start times of two invocations of the harness: an earlier one, whose
\* export file is on the disk, and the one explored
StartTimes ==
  {[earlier |-> a, now |-> b] : a \in 0..MaxClock, b \in 0..MaxClock}

\* started one whole second after the earlier invocation
SecondLater == [earlier |-> 0, now |-> TicksPerSecond]

ClockInvocation ==
  [argv |-> [manual |-> FALSE,
             problems |-> Some(<<Tok("1")>>),
             searches |-> Some(<<Tok("1")>>)],
   stdin |-> NoStdin]

\* every invocation is explored one second after the earlier one; a 1 x 1
\* batch is explored for every pair of distinct start times
Scenarios ==
  {[argv |-> v.argv, stdin |-> v.stdin, env |-> Quiet, clock |-> SecondLater] :
     v \in Invocations}
    \cup {[argv |-> RacyInvocation.argv, stdin |-> NoStdin, env |-> Racy,
           clock |-> SecondLater],
          [argv |-> BusyInvocation.argv, stdin |-> NoStdin, env |-> Busy,
           clock |-> SecondLater]}
    \cup {[argv |-> ClockInvocation.argv, stdin |-> NoStdin, env |-> Quiet,
           clock |-> c] : c \in {c \in StartTimes : c.earlier < c.now}}

(***************************************************************************)
(* State.                                                                  *)
(***************************************************************************)
VARIABLES
  argv,       \* the command line: -m, -p tokens, -s tokens
  stdin,      \* the lines answered to manual()'s two input() calls
  env,        \* the environment explored: deadlines reached, work of a search
  RUNTIME,    \* the global RUNTIME: datetime.now() at process start, in ticks
  disk,       \* the export files in the working directory: name and writer
  pc,         \* the statement the main thread is about to execute
  args,       \* argparse's Namespace after parse_args
  p_choices,  \* main's parameter p_choices
  s_choices,  \* main's parameter s_choices
  problems,   \* main's list problems (indices into PROBLEMS, 1-based)
  searches,   \* main's list searches (indices into SEARCHES, 1-based)
  pi,         \* position of the outer loop in problems
  si,         \* position of the inner loop in searches
  attempted,  \* the "Solving ..." lines printed: one (problem, search) per run
  h_arg,      \* _h, the heuristic passed to run_search: None or Some(bound
              \* method)
  ip,         \* the PrintableProblem of the run in progress, or None
  since,      \* timer() - start: clock units since run_search read start
  elapsed,    \* end - start once "end = timer()" has run, else None
  node,       \* the node the search returned: Some(plan length), or None
  exc,        \* the exception unwinding run_search's try blocks
  timers,     \* timers[i]: state of the threading.Timer started by run i
  RESULTS,    \* the global list RESULTS
  owner,      \* owner[j]: the run whose add_results call appended RESULTS[j]
  hist,       \* what happened to run Run: its search returned before the
              \* deadline, was interrupted by its own timer, or a collaborator
              \* raised before the deadline
  stderr,     \* the "took too long" lines written by quit_function
  csv,        \* the rows written by export_results_to_csv, or None
  echoed,     \* the command manual() prints after the batch, or None
  traceback   \* the exception that ended the main thread and the statement
              \* that raised it, or None

vars ==
  << argv, stdin, env, RUNTIME, disk, pc, args, p_choices, s_choices, problems, searches, pi, si,
     attempted, h_arg, ip, since, elapsed, node, exc, timers, RESULTS, owner,
     hist, stderr, csv, echoed, traceback >>

inVars == << argv, stdin, env, RUNTIME >>
frontVars == << args, p_choices, s_choices, problems, searches, pi, si >>
runVars == << h_arg, ip, since, elapsed, node, exc, hist >>
timerVars == << timers, stderr >>
outVars == << RESULTS, owner, csv, echoed, disk >>

NoHist == [returned |-> FALSE, timedout |-> FALSE, faulted |-> FALSE]

\* 'cargo_planning_search_metrics_{:d}.csv'.format(int(t.timestamp()))
Filename(t) ==
  << "cargo_planning_search_metrics_", t \div TicksPerSecond, ".csv" >>

\* to_csv(filename): the file of that name is created or replaced
Written(files, t) ==
  {f \in files : f.name # Filename(t)} \cup {[name |-> Filename(t), by |-> t]}

Init ==
  /\ \E sc \in Scenarios :
       /\ argv = sc.argv /\ stdin = sc.stdin /\ env = sc.env
       /\ RUNTIME = sc.clock.now
       /\ disk = Written({}, sc.clock.earlier)
  /\ pc = "parse_args"
  /\ args = None
  /\ p_choices = <<>>
  /\ s_choices = <<>>
  /\ problems = <<>>
  /\ searches = <<>>
  /\ pi = 1
  /\ si = 1
  /\ attempted = <<>>
  /\ h_arg = None
  /\ ip = None
  /\ since = 0
  /\ elapsed = None
  /\ node = None
  /\ exc = None
  /\ timers = <<>>
  /\ RESULTS = <<>>
  /\ owner = <<>>
  /\ hist = NoHist
  /\ stderr = <<>>
  /\ csv = None
  /\ echoed = None
  /\ traceback = None

(***************************************************************************)
(* The entry point: parse_args and the dispatch on the flags.              *)
(***************************************************************************)
\* argparse accepts a -p/-s token: type=int converts it, choices holds it
ArgAccepted(tok, registry) ==
  IsPyInt(tok) /\ PyInt(tok) \in 1..Len(registry)

FlagAccepted(opt, registry) ==
  opt = None \/ \A i \in 1..Len(opt[1]) : ArgAccepted(opt[1][i], registry)

ParsedFlag(opt) ==
  IF opt = None THEN None ELSE Some(MapSeq(PyInt, opt[1]))

\* parser.parse_args(): a bad -p or -s value ends the process with a usage error
ParseArgs ==
  /\ pc = "parse_args"
  /\ IF FlagAccepted(argv.problems, PROBLEMS) /\ FlagAccepted(argv.searches, SEARCHES)
     THEN /\ args' = Some([manual |-> argv.manual,
                           problems |-> ParsedFlag(argv.problems),
                           searches |-> ParsedFlag(argv.searches)])
          /\ pc' = "dispatch"
     ELSE /\ args' = args
          /\ pc' = "usage_error"
  /\ UNCHANGED << inVars, p_choices, s_choices, problems, searches, pi, si,
                  attempted, runVars, timerVars, outVars, traceback >>

\* the list passed on as it was given
NotNormalized(xs) == xs

\* list(sorted(set(xs))) of the direct mode
Normalized(xs) == PySorted(PySet(xs))

\* if args.manual: manual()
DispatchManual ==
  /\ pc = "dispatch"
  /\ args[1].manual
  /\ pc' = "manual"
  /\ UNCHANGED << inVars, frontVars, attempted, runVars, timerVars, outVars,
                  traceback >>

\* elif args.problems and args.searches: main(sorted(set(..)), sorted(set(..)))
DispatchDirect ==
  /\ pc = "dispatch"
  /\ ~args[1].manual
  /\ args[1].problems # None /\ args[1].searches # None
  /\ p_choices' = MapSeq(IntItem, Normalized(args[1].problems[1]))
  /\ s_choices' = MapSeq(IntItem, Normalized(args[1].searches[1]))
  /\ pc' = "main"
  /\ UNCHANGED << inVars, args, problems, searches, pi, si, attempted,
                  runVars, timerVars, outVars, traceback >>

\* a flag left out stands for the first entry of its registry
DispatchHelpDefaults ==
  /\ pc = "dispatch"
  /\ ~args[1].manual
  /\ args[1].problems = None \/ args[1].searches = None
  /\ p_choices' = IF args[1].problems = None THEN <<IntItem(1)>>
                  ELSE MapSeq(IntItem, Normalized(args[1].problems[1]))
  /\ s_choices' = IF args[1].searches = None THEN <<IntItem(1)>>
                  ELSE MapSeq(IntItem, Normalized(args[1].searches[1]))
  /\ pc' = "main"
  /\ UNCHANGED << inVars, args, problems, searches, pi, si, attempted,
                  runVars, timerVars, outVars, traceback >>

\* else: print the help, the message and both registries
DispatchHelp ==
  /\ pc = "dispatch"
  /\ ~args[1].manual
  /\ args[1].problems = None \/ args[1].searches = None
  /\ pc' = "help_printed"
  /\ UNCHANGED << inVars, frontVars, attempted, runVars, timerVars, outVars,
                  traceback >>

\* manual(): the two input().split() lists go to main as typed
Manual ==
  /\ pc = "manual"
  /\ p_choices' = MapSeq(StrItem, stdin.p)
  /\ s_choices' = MapSeq(StrItem, stdin.s)
  /\ pc' = "main"
  /\ UNCHANGED << inVars, args, problems, searches, pi, si, attempted,
                  runVars, timerVars, outVars, traceback >>

(***************************************************************************)
(* main: the two comprehensions that resolve the choices.                  *)
(***************************************************************************)
\* registry[i-1] for i in map(int, choices): which exception, if any
ResolveError(choices, registry) ==
  IF \E j \in 1..Len(choices) :
       /\ \A k \in 1..(j - 1) : ItemIsInt(choices[k])
                                /\ PyIndexOK(registry, ItemInt(choices[k]) - 1)
       /\ ~ItemIsInt(choices[j])
  THEN Some("ValueError")
  ELSE IF \E j \in 1..Len(choices) : ~PyIndexOK(registry, ItemInt(choices[j]) - 1)
  THEN Some("IndexError")
  ELSE None

IndexRegistry(registry) == [i \in 1..Len(registry) |-> i]

\* the resolved list, as registry positions (1-based)
Resolved(choices, registry) ==
  [j \in 1..Len(choices) |->
     PyIndex(IndexRegistry(registry), ItemInt(choices[j]) - 1)]

\* an exception leaves main: the batch ends with a traceback
Abort(e) ==
  /\ pc' = "aborted"
  /\ traceback' = Some([type |-> e, at |-> pc])

MainResolve ==
  /\ pc = "main"
  /\ LET ep == ResolveError(p_choices, PROBLEMS)
         es == ResolveError(s_choices, SEARCHES)
     IN IF ep # None
        THEN /\ Abort(ep[1])
             /\ UNCHANGED << problems, searches >>
        ELSE IF es # None
        THEN /\ Abort(es[1])
             /\ problems' = Resolved(p_choices, PROBLEMS)
             /\ UNCHANGED searches
        ELSE /\ problems' = Resolved(p_choices, PROBLEMS)
             /\ searches' = Resolved(s_choices, SEARCHES)
             /\ pc' = "loop"
             /\ UNCHANGED traceback
  /\ UNCHANGED << inVars, args, p_choices, s_choices, pi, si, attempted,
                  runVars, timerVars, outVars >>

(***************************************************************************)
(* main: the batch loop.                                                   *)
(***************************************************************************)
\* the run in progress: runs are numbered in the order they are attempted
Run == Len(attempted)

\* the loops nested the other way round: for each search, every problem
LoopSearchMajor ==
  /\ pc \in {"loop", "next"}
  /\ LET cur == IF pc = "next" THEN pi + 1 ELSE pi
     IN IF si > Len(searches)
        THEN /\ pc' = "export"
             /\ UNCHANGED << pi, si, attempted >>
        ELSE IF cur > Len(problems)
        THEN /\ si' = si + 1
             /\ pi' = 1
             /\ pc' = "loop"
             /\ UNCHANGED attempted
        ELSE /\ attempted' = Append(attempted, <<problems[cur], searches[si]>>)
             /\ pi' = cur
             /\ pc' = "factory"
             /\ UNCHANGED si
  /\ h_arg' = None /\ ip' = None /\ node' = None /\ elapsed' = None
  /\ since' = 0 /\ hist' = NoHist
  /\ UNCHANGED << inVars, args, p_choices, s_choices, problems, searches, exc,
                  timerVars, outVars, traceback >>

\* the export moved into the outer loop: it follows the first problem
LoopExportEarly ==
  /\ pc \in {"loop", "next"}
  /\ LET cur == IF pc = "next" THEN si + 1 ELSE si
     IN IF pi > Len(problems) \/ cur > Len(searches)
        THEN /\ pc' = "export"
             /\ UNCHANGED << pi, si, attempted >>
        ELSE /\ attempted' = Append(attempted, <<problems[pi], searches[cur]>>)
             /\ si' = cur
             /\ pc' = "factory"
             /\ UNCHANGED pi
  /\ h_arg' = None /\ ip' = None /\ node' = None /\ elapsed' = None
  /\ since' = 0 /\ hist' = NoHist
  /\ UNCHANGED << inVars, args, p_choices, s_choices, problems, searches, exc,
                  timerVars, outVars, traceback >>

\* for pname, p in problems: for sname, s, h in searches: print("Solving ...")
\* after the last problem: export_results_to_csv()
\* (pc = "next": a run_search call has just returned and the inner loop
\* moves on; pc = "loop": the outer loop takes its first or next problem)
Loop ==
  /\ pc \in {"loop", "next"}
  /\ LET cur == IF pc = "next" THEN si + 1 ELSE si
     IN IF pi > Len(problems)
        THEN /\ pc' = "export"
             /\ UNCHANGED << pi, si, attempted >>
        ELSE IF cur > Len(searches)
        THEN /\ pi' = pi + 1
             /\ si' = 1
             /\ pc' = "loop"
             /\ UNCHANGED attempted
        ELSE /\ attempted' = Append(attempted, <<problems[pi], searches[cur]>>)
             /\ si' = cur
             /\ pc' = "factory"
             /\ UNCHANGED pi
  \* the locals of the run_search call that returned are gone
  /\ h_arg' = None /\ ip' = None /\ node' = None /\ elapsed' = None
  /\ since' = 0 /\ hist' = NoHist
  /\ UNCHANGED << inVars, args, p_choices, s_choices, problems, searches, exc,
                  timerVars, outVars, traceback >>

\* _p = p(): the factory builds the problem
Factory ==
  /\ pc = "factory"
  /\ pc' = "getattr"
  /\ UNCHANGED << inVars, frontVars, attempted, runVars, timerVars, outVars,
                  traceback >>

\* _p = p(): the factory raises
FactoryRaise ==
  /\ pc = "factory"
  /\ Abort("Fault")
  /\ hist' = [hist EXCEPT !.faulted = TRUE]
  /\ UNCHANGED << inVars, frontVars, attempted, h_arg, ip, since, elapsed, node,
                  exc, timerVars, outVars >>

Heuristic == SEARCHES[attempted[Run][2]].h

\* getattr(obj, name): the method name bound to the object obj
BoundMethod(obj, name) == [self |-> obj, fn |-> name]

\* _h = None if not h else getattr(_p, h)
\* (_p is the problem the factory built; run_search has not wrapped it yet)
Getattr ==
  /\ pc = "getattr"
  /\ h_arg' = IF Heuristic = "" THEN None ELSE Some(BoundMethod("_p", Heuristic))
  /\ pc' = "run_search"
  /\ UNCHANGED << inVars, frontVars, attempted, ip, since, elapsed, node,
                  exc, hist, timerVars, outVars, traceback >>

\* getattr(_p, h): the problem has no attribute of that name
GetattrRaise ==
  /\ pc = "getattr"
  /\ Heuristic # ""
  /\ Abort("AttributeError")
  /\ hist' = [hist EXCEPT !.faulted = TRUE]
  /\ UNCHANGED << inVars, frontVars, attempted, h_arg, ip, since, elapsed, node,
                  exc, timerVars, outVars >>

(***************************************************************************)
(* run_search.                                                             *)
(***************************************************************************)
NewProblem == [succs |-> 0, goal_tests |-> 0, states |-> 0]

\* start = timer(); ip = PrintableProblem(problem)
\* (building the wrapper takes one clock unit)
RunSearchEnter ==
  /\ pc = "run_search"
  /\ since' = 1
  /\ ip' = Some(NewProblem)
  /\ pc' = "timer_start"
  /\ UNCHANGED << inVars, frontVars, attempted, h_arg, elapsed, node, exc, hist,
                  timerVars, outVars, traceback >>

\* timer1 = threading.Timer(TIME_LIMIT, quit_function, ...); timer1.start()
\* (the same two statements in both branches of "if parameter is not None")
TimerStart ==
  /\ pc = "timer_start"
  /\ timers' = Append(timers, "armed")
  /\ since' = since + 1
  /\ pc' = "search"
  /\ UNCHANGED << inVars, frontVars, attempted, h_arg, ip, elapsed, node,
                  exc, hist, stderr, outVars, traceback >>

\* one iteration of the search on the instrumented problem: a goal test and
\* an expansion that produces one new state
Counted(c) ==
  [succs |-> c.succs + 1, goal_tests |-> c.goal_tests + 1, states |-> c.states + 1]

\* node = search_function(ip[, parameter]): the search is running
SearchStep ==
  /\ pc = "search"
  /\ ip[1].succs < env.ops
  /\ ip' = Some(Counted(ip[1]))
  /\ since' = since + 1
  /\ UNCHANGED << inVars, frontVars, attempted, h_arg, elapsed, node, exc,
                  hist, pc, timerVars, outVars, traceback >>

\* the search returns a node whose solution() has n actions
SearchReturn ==
  /\ pc = "search"
  /\ \E n \in 0..env.plan : node' = Some(n)
  /\ hist' = [hist EXCEPT !.returned = (timers[Run] = "armed")]
  /\ pc' = "finally"
  /\ UNCHANGED << inVars, frontVars, attempted, h_arg, ip, since, elapsed,
                  exc, timerVars, outVars, traceback >>

\* the search raises an exception of its own
SearchRaise ==
  /\ pc = "search"
  /\ exc' = Some("Fault")
  /\ hist' = [hist EXCEPT !.faulted = (timers[Run] = "armed")]
  /\ pc' = "finally"
  /\ UNCHANGED << inVars, frontVars, attempted, h_arg, ip, since, elapsed,
                  node, timerVars, outVars, traceback >>

\* Timer.cancel(): stops a timer that is still waiting
Cancelled(t) == IF t = "armed" THEN "cancelled" ELSE t

\* finally: timer1.cancel(); then on to "end = timer()", to the except clause
\* (a KeyboardInterrupt is unwinding) or out of run_search (another exception)
Finally ==
  /\ pc = "finally"
  /\ timers' = [timers EXCEPT ![Run] = Cancelled(@)]
  /\ IF exc = None
     THEN pc' = "report" /\ UNCHANGED << exc, traceback >>
     ELSE IF exc = Some("KeyboardInterrupt")
     THEN pc' = "except" /\ exc' = None /\ UNCHANGED traceback
     ELSE Abort(exc[1]) /\ exc' = None
  /\ UNCHANGED << inVars, frontVars, attempted, h_arg, ip, since, elapsed,
                  node, hist, stderr, outVars >>

\* end = timer(); the two prints; show_solution(node, end - start)
\* (the printing takes one clock unit)
Report ==
  /\ pc = "report"
  /\ elapsed' = Some(since)
  /\ since' = since + 1
  /\ pc' = "add_results"
  /\ UNCHANGED << inVars, frontVars, attempted, h_arg, ip, node, exc, hist,
                  timerVars, outVars, traceback >>

ProblemName == PROBLEMS[attempted[Run][1]].name
SearchName == SEARCHES[attempted[Run][2]].name

\* a failure entry that reports zeros instead of None
ResultZeroed(problem_name, search_name, failure, ip_, node_, elapsed_time) ==
  IF failure
  THEN [problem |-> problem_name, search_algorithm |-> search_name,
        solution_found |-> FALSE, expansions |-> Some(0), goal_tests |-> Some(0),
        new_nodes |-> Some(0), elapsed_time |-> None, num_actions |-> Some(0)]
  ELSE [problem |-> problem_name, search_algorithm |-> search_name,
        solution_found |-> TRUE, expansions |-> Some(ip_[1].succs),
        goal_tests |-> Some(ip_[1].goal_tests),
        new_nodes |-> Some(ip_[1].states),
        elapsed_time |-> elapsed_time, num_actions |-> Some(node_[1])]

\* the dictionary add_results builds; ip, node and elapsed_time are None
\* unless the caller passes them
Result(problem_name, search_name, failure, ip_, node_, elapsed_time) ==
  IF failure
  THEN [problem |-> problem_name, search_algorithm |-> search_name,
        solution_found |-> FALSE, expansions |-> None, goal_tests |-> None,
        new_nodes |-> None, elapsed_time |-> None, num_actions |-> None]
  ELSE [problem |-> problem_name, search_algorithm |-> search_name,
        solution_found |-> TRUE, expansions |-> Some(ip_[1].succs),
        goal_tests |-> Some(ip_[1].goal_tests),
        new_nodes |-> Some(ip_[1].states),
        elapsed_time |-> elapsed_time, num_actions |-> Some(node_[1])]

\* add_results(...): RESULTS.append(result)
add_results(problem_name, search_name, failure, ip_, node_, elapsed_time) ==
  /\ RESULTS' = Append(RESULTS,
        Result(problem_name, search_name, failure, ip_, node_, elapsed_time))
  /\ owner' = Append(owner, Run)

\* add_results(problem_name, search_name, ip=ip, node=node, elapsed_time=end-start)
AddSuccess ==
  /\ pc = "add_results"
  /\ add_results(ProblemName, SearchName, FALSE, ip, node, elapsed)
  /\ pc' = "print"
  /\ UNCHANGED << inVars, frontVars, attempted, runVars, timerVars, csv,
                  echoed, disk, traceback >>

\* run_search returns to the inner loop of main
Return ==
  /\ pc' = "next"
  /\ UNCHANGED << inVars, frontVars, attempted, runVars, timerVars, traceback >>

\* print(), the last statement of the try block
PrintBlank ==
  /\ pc = "print"
  /\ Return
  /\ UNCHANGED outVars

\* except KeyboardInterrupt: add_results(problem_name, search_name, failure=True)
ExceptKeyboardInterrupt ==
  /\ pc = "except"
  /\ add_results(ProblemName, SearchName, TRUE, None, None, None)
  /\ Return
  /\ UNCHANGED << csv, echoed, disk >>

(***************************************************************************)
(* The timer threads.                                                      *)
(***************************************************************************)
Fired == {i \in 1..Len(timers) : timers[i] \in {"running", "done"}}

\* Timer.run finds the timer not cancelled and calls quit_function, which
\* prints "<fn_name> took too long" to stderr and flushes it
TimerFire(i) ==
  /\ timers[i] = "armed"
  /\ Cardinality(Fired) < env.fires
  /\ timers' = [timers EXCEPT ![i] = "running"]
  /\ stderr' = Append(stderr, SEARCHES[attempted[i][2]].fn)
  /\ UNCHANGED << inVars, pc, frontVars, attempted, runVars, outVars,
                  traceback >>

\* the statements of run_search inside "try: ... except KeyboardInterrupt"
InTry == {"search", "finally", "report", "add_results", "print"}

\* the statements outside every try block at which the main thread runs
OutsideTry == {"dispatch", "manual", "main", "loop", "next", "factory", "getattr",
               "run_search", "timer_start", "except", "export", "echo"}

\* KeyboardInterrupt is raised in the main thread at the statement it is
\* executing; origin is the run whose timer called interrupt_main()
KeyboardInterrupt(origin) ==
  IF pc = "search"
  THEN \* the search is unwound: the finally clause runs next
       /\ pc' = "finally"
       /\ exc' = Some("KeyboardInterrupt")
       /\ hist' = [hist EXCEPT !.timedout = (origin = Run)]
       /\ timers' = [timers EXCEPT ![origin] = "done"]
       /\ UNCHANGED traceback
  ELSE IF pc = "finally"
  THEN \* raised inside the finally clause, before or after cancel() took
       \* effect: it replaces the exception that was unwinding
       /\ pc' = "except"
       /\ exc' = None
       /\ \E cancelled \in BOOLEAN :
            timers' = [i \in 1..Len(timers) |->
                         IF i = origin THEN "done"
                         ELSE IF i = Run /\ cancelled THEN Cancelled(timers[i])
                         ELSE timers[i]]
       /\ UNCHANGED << hist, traceback >>
  ELSE IF pc \in InTry
  THEN /\ pc' = "except"
       /\ timers' = [timers EXCEPT ![origin] = "done"]
       /\ UNCHANGED << exc, hist, traceback >>
  ELSE IF pc \in OutsideTry
  THEN \* nothing catches it: it leaves main
       /\ Abort("KeyboardInterrupt")
       /\ timers' = [timers EXCEPT ![origin] = "done"]
       /\ UNCHANGED << exc, hist >>
  ELSE \* the main thread has ended
       /\ timers' = [timers EXCEPT ![origin] = "done"]
       /\ UNCHANGED << pc, exc, hist, traceback >>

\* the timer thread records the timeout itself instead of signalling
quit_and_record(i) ==
  /\ timers[i] = "running"
  /\ timers' = [timers EXCEPT ![i] = "done"]
  /\ RESULTS' = Append(RESULTS,
        Result(PROBLEMS[attempted[i][1]].name, SEARCHES[attempted[i][2]].name,
               TRUE, None, None, None))
  /\ owner' = Append(owner, i)
  /\ UNCHANGED << inVars, pc, frontVars, attempted, runVars, stderr, csv,
                  echoed, disk, traceback >>

\* quit_function: thread.interrupt_main()
quit_function(i) ==
  /\ timers[i] = "running"
  /\ KeyboardInterrupt(i)
  /\ UNCHANGED << inVars, frontVars, attempted, h_arg, ip, since, elapsed,
                  node, stderr, outVars >>

(***************************************************************************)
(* The end of the batch.                                                   *)
(***************************************************************************)
\* results_df[column_order]: the columns written, in this order
Row(r) ==
  << r.problem, r.search_algorithm, r.expansions, r.goal_tests, r.new_nodes,
     r.elapsed_time, r.num_actions >>

\* export_results_to_csv(); an empty DataFrame has none of the columns and
\* the selection raises KeyError
export_results_to_csv ==
  /\ pc = "export"
  /\ IF RESULTS = <<>>
     THEN /\ Abort("KeyError")
          /\ UNCHANGED << csv, disk >>
     ELSE /\ csv' = Some(MapSeq(Row, RESULTS))
          /\ disk' = Written(disk, RUNTIME)
          /\ pc' = IF args[1].manual THEN "echo" ELSE "done"
          /\ UNCHANGED traceback
  /\ UNCHANGED << inVars, frontVars, attempted, runVars, timerVars, RESULTS,
                  owner, echoed >>

\* manual(), after main returns: print the command "-p ... -s ..."
Echo ==
  /\ pc = "echo"
  /\ echoed' = Some([p |-> stdin.p, s |-> stdin.s])
  /\ pc' = "done"
  /\ UNCHANGED << inVars, frontVars, attempted, runVars, timerVars, RESULTS,
                  owner, csv, disk, traceback >>

Next ==
  \/ ParseArgs \/ DispatchManual \/ DispatchDirect \/ DispatchHelp \/ Manual
  \/ MainResolve \/ Loop
  \/ Factory \/ FactoryRaise \/ Getattr \/ GetattrRaise
  \/ RunSearchEnter \/ TimerStart \/ SearchStep \/ SearchReturn \/ SearchRaise
  \/ Finally \/ Report \/ AddSuccess \/ PrintBlank \/ ExceptKeyboardInterrupt
  \/ (\E i \in 1..Len(timers) : TimerFire(i))
  \/ (\E i \in 1..Len(timers) : quit_function(i))
  \/ export_results_to_csv \/ Echo

Spec == Init /\ [][Next]_vars

(***************************************************************************)
(* Vocabulary of the properties.                                           *)
(***************************************************************************)
\* the positions in RESULTS of the records run i appended
OwnedBy(i) == {j \in 1..Len(owner) : owner[j] = i}

\* solution_found of the records run i appended, in order
RECURSIVE FlagsFrom(_, _)
FlagsFrom(i, j) ==
  IF j > Len(RESULTS) THEN <<>>
  ELSE (IF owner[j] = i THEN <<RESULTS[j].solution_found>> ELSE <<>>)
         \o FlagsFrom(i, j + 1)

Flags(i) == FlagsFrom(i, 1)

\* the statements of one iteration of main's inner loop
InRun == {"factory", "getattr", "run_search", "timer_start", "except"} \cup InTry

\* run Run is over: main is between runs, after the loop, or has ended
RunExited == Run >= 1 /\ pc \notin InRun

\* the batch loop ended and no exception left main before the export
BatchCompleted == pc \in {"export", "echo", "done"}

\* the main thread is executing some statement
MainAlive == pc \in InTry \cup OutsideTry \cup {"parse_args"}

\* the tokens that select problems and searches in this invocation
SelectedProblems ==
  IF argv.manual THEN stdin.p
  ELSE IF argv.problems = None THEN <<>> ELSE argv.problems[1]

SelectedSearches ==
  IF argv.manual THEN stdin.s
  ELSE IF argv.searches = None THEN <<>> ELSE argv.searches[1]

\* some token is an integer outside the registry's 1-based range
HasIndexOutOfRange(toks, registry) ==
  \E i \in 1..Len(toks) :
     IsPyInt(toks[i]) /\ PyInt(toks[i]) \notin 1..Len(registry)

StrictlyAscending(xs) == \A i, j \in 1..Len(xs) : i < j => xs[i] < xs[j]

\* the problem-major Cartesian product of two lists
Product(P, S) ==
  [k \in 1..(Len(P) * Len(S)) |->
     << P[((k - 1) \div Len(S)) + 1], S[((k - 1) % Len(S)) + 1] >>]

IsPrefix(xs, ys) == Len(xs) <= Len(ys) /\ \A i \in 1..Len(xs) : xs[i] = ys[i]

(***************************************************************************)
(* C1.  When a batch ends without a fatal fault, RESULTS holds exactly one *)
(* record per attempted (problem, strategy) tuple, in the order of the     *)
(* attempts, under every interleaving of the timer threads with main.      *)
(***************************************************************************)
C1_OneRecordPerTuple ==
  BatchCompleted =>
    /\ Len(RESULTS) = Len(attempted)
    /\ \A j \in 1..Len(RESULTS) :
         /\ owner[j] = j
         /\ RESULTS[j].problem = PROBLEMS[attempted[j][1]].name
         /\ RESULTS[j].search_algorithm = SEARCHES[attempted[j][2]].name

(***************************************************************************)
(* C2.  The KeyboardInterrupt raised by the timer of run i reaches the     *)
(* main thread only while it executes the try block of run i: never during *)
(* another run, never between runs or in export_results_to_csv.            *)
(***************************************************************************)
C2_InterruptStaysInOwnRun ==
  [][\A i \in 1..Len(timers) :
        (timers[i] = "running" /\ timers'[i] = "done" /\ MainAlive)
          => (i = Run /\ pc \in InTry)]_vars

(***************************************************************************)
(* C3.  A run whose search returns before its deadline ends with exactly   *)
(* one record, solution_found = True; a run whose search is interrupted by *)
(* its own timer ends with exactly one record, solution_found = False.     *)
(***************************************************************************)
C3_OutcomeMatchesRace ==
  RunExited =>
    /\ hist.returned => Flags(Run) = <<TRUE>>
    /\ hist.timedout => Flags(Run) = <<FALSE>>

(***************************************************************************)
(* C4.  A run that times out leaves one unsolved record for its tuple and  *)
(* control goes back to the loop of main: no exception leaves run_search.  *)
(***************************************************************************)
C4_TimeoutContinuesBatch ==
  (hist.timedout /\ RunExited) =>
    /\ Flags(Run) = <<FALSE>>
    /\ ~(pc = "aborted" /\ traceback[1].at \in InRun)

(***************************************************************************)
(* C5.  A failure of the search, the problem factory or the heuristic      *)
(* lookup ends the batch: no record for the tuple in flight, no later      *)
(* tuple, no export.                                                       *)
(***************************************************************************)
C5_FaultEndsBatch ==
  hist.faulted =>
    /\ pc \in {"finally", "aborted"}
    /\ OwnedBy(Run) = {}
    /\ csv = None

(***************************************************************************)
(* C6.  In every record of RESULTS the five optional fields are all        *)
(* present when solution_found is True and all None when it is False.      *)
(***************************************************************************)
Optional(r) ==
  {r.expansions, r.goal_tests, r.new_nodes, r.elapsed_time, r.num_actions}

C6_OptionalIffSolved ==
  \A j \in 1..Len(RESULTS) :
     IF RESULTS[j].solution_found
     THEN None \notin Optional(RESULTS[j])
     ELSE Optional(RESULTS[j]) = {None}

\* an interrupted run that had counted work left an unsolved record, next
\* to a solved record whose counters are zero
C6_Witness ==
  /\ pc = "next"
  /\ Len(RESULTS) = 2
  /\ RESULTS[1].solution_found /\ RESULTS[1].expansions = Some(0)
  /\ ~RESULTS[2].solution_found
  /\ ip # None /\ ip[1].succs > 0

(***************************************************************************)
(* C7.  Manual mode hands the batch loop the same lists as direct mode     *)
(* does for the same index lists, so the echoed command repeats the batch. *)
(***************************************************************************)
DirectList(toks, registry) ==
  Resolved(MapSeq(IntItem, PySorted(PySet(MapSeq(PyInt, toks)))), registry)

C7_ManualMatchesDirect ==
  (/\ argv.manual
   /\ pc \in InRun \cup {"loop", "next", "export", "echo", "done"}
   /\ stdin.p # <<>> /\ FlagAccepted(Some(stdin.p), PROBLEMS)
   /\ stdin.s # <<>> /\ FlagAccepted(Some(stdin.s), SEARCHES))
    => /\ problems = DirectList(stdin.p, PROBLEMS)
       /\ searches = DirectList(stdin.s, SEARCHES)

(***************************************************************************)
(* C8.  In both modes a selection with an index outside the registry's     *)
(* range starts nothing: no run, no timer, no record.                      *)
(***************************************************************************)
C8_OutOfRangeRejected ==
  (\/ HasIndexOutOfRange(SelectedProblems, PROBLEMS)
   \/ HasIndexOutOfRange(SelectedSearches, SEARCHES))
    => attempted = <<>> /\ timers = <<>> /\ RESULTS = <<>>

(***************************************************************************)
(* C9.  In direct mode main receives each distinct index of -p and of -s   *)
(* exactly once, in ascending order, and the batch lists follow them.      *)
(***************************************************************************)
Ints(choices) == MapSeq(ItemInt, choices)

C9_DirectNormalized ==
  (~argv.manual /\ pc \in InRun \cup {"main", "loop", "next", "export", "done", "aborted"}
     /\ args # None)
    => /\ StrictlyAscending(Ints(p_choices))
       /\ StrictlyAscending(Ints(s_choices))
       /\ PySet(Ints(p_choices)) = PySet(args[1].problems[1])
       /\ PySet(Ints(s_choices)) = PySet(args[1].searches[1])
       /\ pc # "main" => problems = Ints(p_choices) /\ searches = Ints(s_choices)

\* -p 2 1 -s 1 1 reached the batch loop as problems [1, 2], searches [1]
C9_Witness ==
  /\ ~argv.manual
  /\ argv.problems = Some(<<Tok("2"), Tok("1")>>)
  /\ argv.searches = Some(<<Tok("1"), Tok("1")>>)
  /\ pc = "loop"
  /\ problems = <<1, 2>>
  /\ searches = <<1>>

(***************************************************************************)
(* C10.  The runs attempted are the problem-major Cartesian product of the *)
(* selected problems and searches, one after the other: at every moment a  *)
(* prefix of it, the whole of it when the loop ends, and every run before  *)
(* the one in progress has left its record.                                *)
(***************************************************************************)
C10_ProblemMajorProduct ==
  /\ IsPrefix(attempted, Product(problems, searches))
  /\ BatchCompleted =>
       /\ attempted = Product(problems, searches)
       /\ Len(attempted) = Len(problems) * Len(searches)
  /\ \A i \in 1..(Run - 1) : OwnedBy(i) # {}

\* a 2 x 2 batch ran to its end: four attempts
C10_Witness ==
  /\ pc = "done"
  /\ Len(problems) = 2 /\ Len(searches) = 2
  /\ Len(attempted) = 4
  /\ attempted[2] = <<problems[1], searches[2]>>
  /\ attempted[3] = <<problems[2], searches[1]>>

(***************************************************************************)
(* C11.  export_results_to_csv runs at most once in a process, only after  *)
(* the loop of main has attempted every tuple of the batch and every       *)
(* tuple has left a record; a batch that ends normally has exported, and   *)
(* the rows written are the records of RESULTS in insertion order.         *)
(***************************************************************************)
C11_ExportOnceAtEnd ==
  [][/\ pc = "export" =>
          /\ attempted = Product(problems, searches)
          /\ \A i \in 1..Len(attempted) : OwnedBy(i) # {}
     /\ csv' # csv =>
          /\ csv = None /\ pc = "export"
          /\ csv' = Some(MapSeq(Row, RESULTS))
          /\ RESULTS' = RESULTS
     /\ pc' \in {"echo", "done"} => csv' # None]_vars

\* a 2 x 2 batch was exported: four rows or more, in the order of RESULTS
C11_Witness ==
  /\ pc = "done"
  /\ Len(problems) = 2 /\ Len(searches) = 2
  /\ csv # None /\ Len(csv[1]) >= 4
  /\ csv[1][1][1] # csv[1][Len(csv[1])][1]

(***************************************************************************)
(* C12.  Without -m, an invocation with no flags or with only one of -p    *)
(* and -s runs nothing: no run is attempted, no timer is started, RESULTS  *)
(* stays empty and nothing is exported.                                    *)
(***************************************************************************)
C12_IncompleteFlagsRunNothing ==
  (~argv.manual /\ (argv.problems = None \/ argv.searches = None)) =>
    /\ pc \in {"parse_args", "dispatch", "help_printed", "usage_error"}
    /\ attempted = <<>> /\ timers = <<>> /\ RESULTS = <<>>
    /\ csv = None /\ \A f \in disk : f.by # RUNTIME

\* -p 1 alone ended with the help text
C12_Witness ==
  /\ pc = "help_printed"
  /\ ~argv.manual
  /\ argv.problems = Some(<<Tok("1")>>)
  /\ argv.searches = None

(***************************************************************************)
(* C13.  -m together with -p and/or -s is rejected: the process does not   *)
(* enter the interactive selection and starts no run.                      *)
(***************************************************************************)
C13_ManualExcludesDirect ==
  (argv.manual /\ (argv.problems # None \/ argv.searches # None)) =>
    /\ pc \in {"parse_args", "dispatch", "help_printed", "usage_error"}
    /\ attempted = <<>> /\ timers = <<>> /\ RESULTS = <<>>

(***************************************************************************)
(* C14.  No invocation overwrites the export file of another invocation    *)
(* that started at a different time: the file names of two invocations     *)
(* differ, so every file on the disk stays as its writer left it.          *)
(***************************************************************************)
C14_NoOverwrite ==
  [][\A f \in disk : f \in disk']_vars

(***************************************************************************)
(* C15.  At most one timer is alive (armed, or executing quit_function),   *)
(* and the timer of run i is alive only while run i is in progress.        *)
(***************************************************************************)
Alive == {i \in 1..Len(timers) : timers[i] \in {"armed", "running"}}

C15_TimerAliveOnlyInOwnRun ==
  /\ Cardinality(Alive) <= 1
  /\ \A i \in Alive : i = Run /\ pc \in InRun

(***************************************************************************)
(* C16.  A step of a timer thread leaves RESULTS as it is: it changes only *)
(* the timer, stderr and, through the KeyboardInterrupt, the course of the *)
(* main thread.  Records are appended by steps of the main thread only.    *)
(***************************************************************************)
TimerThreadStep ==
  \E i \in 1..Len(timers) :
     \/ timers[i] = "armed" /\ timers'[i] = "running"
     \/ timers[i] = "running" /\ timers'[i] = "done"

C16_TimerNeverRecords ==
  [][/\ TimerThreadStep =>
          UNCHANGED << RESULTS, owner, csv, echoed, disk, frontVars, attempted,
                       h_arg, ip, since, elapsed, node >>
     /\ RESULTS' # RESULTS =>
          /\ ~TimerThreadStep
          /\ pc \in {"add_results", "except"}
          /\ owner' = Append(owner, Run)]_vars

\* the timer of the run in progress has written its line and delivered the
\* interrupt; the main thread is in the except clause, RESULTS still empty
C16_Witness ==
  /\ pc = "except"
  /\ timers[Run] = "done"
  /\ Len(stderr) = 1
  /\ RESULTS = <<>>

(***************************************************************************)
(* C17.  When the algorithm is invoked for a strategy with a heuristic     *)
(* name, the heuristic it receives is that name resolved on the wrapped    *)
(* instance ip of the run; for a strategy without a heuristic name it      *)
(* receives no heuristic.                                                  *)
(***************************************************************************)
C17_HeuristicFromWrapped ==
  pc = "search" =>
    IF Heuristic = "" THEN h_arg = None
    ELSE h_arg = Some(BoundMethod("ip", Heuristic))

(***************************************************************************)
(* C18.  The elapsed time of a successful run is the time spent in the     *)
(* call of the search function and nothing else: the clock that starts     *)
(* with the reading of start shows, while the call runs and when end is    *)
(* read, the time the call has taken.  An iteration of the search takes    *)
(* one clock unit.                                                         *)
(***************************************************************************)
TimeInCall == ip[1].succs

C18_ElapsedBracketsCall ==
  /\ pc = "search" => since = TimeInCall
  /\ elapsed # None => elapsed[1] = TimeInCall

(***************************************************************************)
(* C19.  In a batch over selections without duplicates, records appended   *)
(* for two different (problem, strategy) tuples differ in their (problem,  *)
(* search_algorithm) pair.                                                 *)
(***************************************************************************)
NoDuplicates(xs) == \A i, j \in 1..Len(xs) : xs[i] = xs[j] => i = j

C19_RecordIdentifiesTuple ==
  (NoDuplicates(problems) /\ NoDuplicates(searches)) =>
    \A j, k \in 1..Len(RESULTS) :
       attempted[owner[j]] # attempted[owner[k]] =>
         << RESULTS[j].problem, RESULTS[j].search_algorithm >>
           # << RESULTS[k].problem, RESULTS[k].search_algorithm >>

=============================================================================
